---- MODULE Spec2Model ----
(***************************************************************************)
(* Model of the keyboard driver: the fixed-block pool (mypool.c), the key  *)
(* registry (keyboard_register_key) and the per-tick debounce and gesture  *)
(* state machine (keyboard_poll).                                          *)
(*                                                                         *)
(* Memory is modelled by address: a block is a header word (the free-list  *)
(* link, kept in hdr) followed by its payload (kept in payload); a handle  *)
(* is the payload address, NULL is 0.                                      *)
(***************************************************************************)
EXTENDS Integers, Sequences, FiniteSets, TLC

VARIABLES pool, hdr, payload, ctl, key_rt, events, live, op, prev, pre, log, noFree, h

vars == <<pool, hdr, payload, ctl, key_rt, events, live, op, prev, pre, log, noFree, h>>

NULL == 0

\* ---------------------------------------------------------------- bounds
\* Largest block count a pool is initialised with in SpecPool.
MaxCount == 3
\* How many mpool_alloc results of a release-free run are kept in log.
MaxLog == MaxCount + 2
\* Payload sizes a pool is initialised with in SpecPool.
BlkSizes == {1, 12}
\* Key ids 1 .. MaxKeyId are registered in SpecReg.
MaxKeyId == 2
\* Tick deltas in ms keyboard_poll is called with in SpecPoll; 0 is the no-op.
Deltas == {16, 80}
\* A key is released before its press_ms passes this.
MaxPressMs == 1400
\* REPEAT events of one press are counted up to this.
MaxRep == 3
\* First and second byte of the hardware locations registered in SpecReg; 8 is
\* out of range as a matrix row or column.
HwB0 == {1, 8}
HwB1 == {0, 1, 8}
\* Free slots of the key table when SpecFull starts.
Spare == 2
\* Ids of the keys registered in SpecKeys, in this order.
KeyIds == {1, 2}
\* In SpecKeys a key is released before its press_ms passes this.
KeysMaxPressMs == 900
\* Tick deltas in ms keyboard_poll is called with in SpecKeys: one repeat period
\* and one long-press time; 0 is the no-op.
KeysDeltas == {80, 800}

\* ------------------------------------------------------- target constants
\* sizeof(mpool_node_t): one pointer on the 32-bit target.
SizeofNode == 4
\* sizeof(keyboard_que_t) on the 32-bit target: pointer, u16, 2-byte union, pointer.
SizeofQue == 12
\* Address of the buffer handed to mpool_init.
BufAddr == 4096
KEYBOARD_POOL_SIZE == 512
KB_MAX_KEYS == 16
KB_BACKEND_GPIO == 1
KB_BACKEND_MATRIX == 2
KB_BACKEND_CUSTOM == 3
KB_DEBOUNCE_MS == 20
KB_LONGPRESS_MS == 800
KB_REPEAT_START_MS == 500
KB_REPEAT_PERIOD_MS == 80
KB_DOUBLE_CLICK_MS == 250
KB_GPIO_ACTIVE_LEVEL == 1
KB_MATRIX_ACTIVE_LEVEL == 1
\* The backend the driver is built with unless the project overrides it.
KB_BACKEND_MODE == 2
KB_MATRIX_MAX_ROW == 8
KB_MATRIX_MAX_COL == 8

KB_OK == 0
KB_ERR_PARAM == -1
KB_ERR_BACKEND == -2
KB_ERR_POOL_CFG == -3
KB_ERR_RANGE == -4
KB_ERR_DUPLICATE == -5
KB_ERR_FULL == -6
KB_ERR_NOMEM == -7

U16(x) == x % 65536

\* ((s) + 3u) & ~3u
MPOOL_ALIGN_UP(s) == ((s + 3) \div 4) * 4

Stride(blk_size) == U16(MPOOL_ALIGN_UP(blk_size + SizeofNode))

\* A payload of zero bytes, read as a keyboard_que_t. The hardware location is
\* the two bytes of the keyboard_hw_ref_t union.
ZeroQue == [keyname |-> NULL, key_id |-> 0, hw |-> [b0 |-> 0, b1 |-> 0], next |-> NULL]

\* ------------------------------------------------------------------ pool

\* The header addresses mpool_init writes: p after each pass of its loop.
\* The loop bound count - 1 is computed in int, so count = 0 runs no pass.
InitNodes(buf, stride, count) ==
    {buf + i * stride : i \in 0 .. (IF count = 0 THEN 0 ELSE count - 1)}

\* mpool_init: the pool record and the header words it writes.
mpool_init(buf, blk_size, count) ==
    LET stride == Stride(blk_size)
        last   == IF count = 0 THEN buf ELSE buf + (count - 1) * stride
    IN  [pool |-> [free_list |-> buf, blk_size |-> blk_size,
                   total |-> count, used |-> 0],
         hdr  |-> [a \in InitNodes(buf, stride, count) |->
                       IF a = last THEN NULL ELSE a + stride]]

mpool_alloc_noadvance(p, hd, pl) ==
    LET node == p.free_list
    IN  IF node = NULL
        THEN [ret |-> NULL, pool |-> p, payload |-> pl]
        ELSE [ret     |-> node + SizeofNode,
              pool    |-> [p EXCEPT !.used = U16(p.used + 1)],
              payload |-> pl]

mpool_alloc_nocount(p, hd, pl) ==
    LET node == p.free_list
    IN  IF node = NULL
        THEN [ret |-> NULL, pool |-> p, payload |-> pl]
        ELSE [ret     |-> node + SizeofNode,
              pool    |-> [p EXCEPT !.free_list = hd[node]],
              payload |-> pl]

\* mpool_alloc: the result, the pool record and the payload memory after it.
\* The payload of the block handed out is zero-filled.
mpool_alloc(p, hd, pl) ==
    LET node == p.free_list
    IN  IF node = NULL
        THEN [ret |-> NULL, pool |-> p, payload |-> pl]
        ELSE LET ptr == node + SizeofNode
             IN  [ret     |-> ptr,
                  pool    |-> [p EXCEPT !.free_list = hd[node],
                                        !.used = U16(p.used + 1)],
                  payload |-> [a \in DOMAIN pl \cup {ptr} |->
                                  IF a = ptr THEN ZeroQue ELSE pl[a]]]

RECURSIVE PushTail(_, _, _)
\* The header words with node linked after the last block of the chain at a.
PushTail(hd, a, node) ==
    IF hd[a] = NULL THEN [hd EXCEPT ![a] = node, ![node] = NULL]
    ELSE PushTail(hd, hd[a], node)

mpool_free_fifo(p, hd, ptr) ==
    IF ptr = NULL THEN [pool |-> p, hdr |-> hd]
    ELSE LET node == ptr - SizeofNode
         IN  IF p.free_list = NULL
             THEN [pool |-> [p EXCEPT !.free_list = node, !.used = U16(p.used - 1)],
                   hdr  |-> [hd EXCEPT ![node] = NULL]]
             ELSE [pool |-> [p EXCEPT !.used = U16(p.used - 1)],
                   hdr  |-> PushTail(hd, p.free_list, node)]

\* mpool_free: the pool record and the header words after it.
mpool_free(p, hd, ptr) ==
    IF ptr = NULL THEN [pool |-> p, hdr |-> hd]
    ELSE LET node == ptr - SizeofNode
         IN  [pool |-> [p EXCEPT !.free_list = node, !.used = U16(p.used - 1)],
              hdr  |-> [hd EXCEPT ![node] = p.free_list]]

mpool_used_count(p) == p.used
mpool_free_count(p) == U16(p.total - p.used)

RECURSIVE Chain(_, _, _)
\* The free list as the sequence of header addresses reached from a, following
\* at most fuel links.
Chain(hd, a, fuel) ==
    IF a = NULL \/ fuel = 0 THEN <<>>
    ELSE <<a>> \o Chain(hd, hd[a], fuel - 1)

FreeList(p, hd) == Chain(hd, p.free_list, Cardinality(DOMAIN hd) + 1)

\* -------------------------------------------------------------- registry

\* A zeroed kb_key_runtime_t.
ZeroRt == [raw_last |-> 0, stable |-> 0, long_sent |-> 0, click_count |-> 0,
           debounce_ms |-> 0, press_ms |-> 0, repeat_ms |-> 0, click_wait_ms |-> 0]

\* The address of the name string of key id.
StrAddr(id) == 8192 + id

\* A control block before keyboard_init.
NoCtl == [backend_mode |-> 0, head |-> NULL, key_num |-> 0,
          on_event |-> FALSE, scan_snapshot |-> FALSE]

\* The operations a backend needs, all supplied.
AllOps == [read_pin |-> TRUE, matrix_select_row |-> TRUE, matrix_read_col |-> TRUE,
           matrix_unselect_row |-> TRUE, scan_snapshot |-> TRUE]

\* kb_hw_equal: a and b are the two bytes of a keyboard_hw_ref_t; gpio_pin is
\* the first, matrix.row and matrix.col the first and second, hw_code both.
kb_hw_equal(backend_mode, a, b) ==
    CASE backend_mode = KB_BACKEND_GPIO   -> a.b0 = b.b0
      [] backend_mode = KB_BACKEND_MATRIX -> a.b0 = b.b0 /\ a.b1 = b.b1
      [] OTHER                            -> a.b0 = b.b0 /\ a.b1 = b.b1

\* keyboard_init with KB_BACKEND_MODE = mode, called with a control block, an
\* operation table ops and callbacks cb: the result code and, when it is KB_OK,
\* the control block, the pool and the runtime table.
keyboard_init(mode, ops, cb) ==
    LET stride == Stride(SizeofQue)
        n      == U16(KEYBOARD_POOL_SIZE \div stride)
        count  == IF n > KB_MAX_KEYS THEN KB_MAX_KEYS ELSE n
        r      == mpool_init(BufAddr, SizeofQue, count)
    IN  IF mode = KB_BACKEND_GPIO /\ ~ops.read_pin THEN [ret |-> KB_ERR_BACKEND]
        ELSE IF /\ mode = KB_BACKEND_MATRIX
                /\ ~(ops.matrix_select_row /\ ops.matrix_read_col /\ ops.matrix_unselect_row)
             THEN [ret |-> KB_ERR_BACKEND]
        ELSE IF n = 0 THEN [ret |-> KB_ERR_POOL_CFG]
        ELSE [ret    |-> KB_OK,
              pool   |-> r.pool,
              hdr    |-> r.hdr,
              ctl    |-> [backend_mode |-> mode, head |-> NULL, key_num |-> 0,
                          on_event |-> cb.on_event,
                          scan_snapshot |-> ops.scan_snapshot],
              key_rt |-> [i \in 0 .. KB_MAX_KEYS - 1 |-> ZeroRt]]

RECURSIVE LastNode(_, _)
\* The node whose next link is NULL, reached from node.
LastNode(pl, node) ==
    IF node = NULL THEN NULL
    ELSE IF pl[node].next = NULL THEN node
    ELSE LastNode(pl, pl[node].next)

\* A variant of the scan that compares only the head of the chain with cfg.
ScanChain_headonly(pl, mode, tail, cfg) ==
    IF tail = NULL THEN [dup |-> FALSE, tail |-> NULL]
    ELSE IF pl[tail].key_id = cfg.key_id \/ kb_hw_equal(mode, pl[tail].hw, cfg.hw)
         THEN [dup |-> TRUE, tail |-> tail]
    ELSE [dup |-> FALSE, tail |-> LastNode(pl, tail)]

RECURSIVE ScanChain(_, _, _, _)
\* The loop of keyboard_register_key over the chain from tail: whether a node
\* has cfg's key id or hardware location, and the node the loop ends at.
ScanChain(pl, mode, tail, cfg) ==
    IF tail = NULL THEN [dup |-> FALSE, tail |-> NULL]
    ELSE IF pl[tail].key_id = cfg.key_id \/ kb_hw_equal(mode, pl[tail].hw, cfg.hw)
         THEN [dup |-> TRUE, tail |-> tail]
    ELSE IF pl[tail].next = NULL THEN [dup |-> FALSE, tail |-> tail]
    ELSE ScanChain(pl, mode, pl[tail].next, cfg)

\* A variant that takes its block from the pool before it scans the chain.
keyboard_register_key_allocfirst(cfg, c, p, hd, pl) ==
    LET same == [ctl |-> c, pool |-> p, payload |-> pl]
        a    == mpool_alloc(p, hd, pl)
        node == a.ret
        kept == [ctl |-> c, pool |-> a.pool, payload |-> pl]
    IN  IF cfg.keyname = NULL
        THEN [ret |-> KB_ERR_PARAM] @@ same
        ELSE IF /\ c.backend_mode = KB_BACKEND_MATRIX
                /\ (cfg.hw.b0 >= KB_MATRIX_MAX_ROW \/ cfg.hw.b1 >= KB_MATRIX_MAX_COL)
        THEN [ret |-> KB_ERR_RANGE] @@ same
        ELSE LET s == ScanChain(pl, c.backend_mode, c.head, cfg)
             IN  IF s.dup THEN [ret |-> KB_ERR_DUPLICATE] @@ kept
                 ELSE IF c.key_num >= KB_MAX_KEYS THEN [ret |-> KB_ERR_FULL] @@ kept
                 ELSE IF node = NULL THEN [ret |-> KB_ERR_NOMEM] @@ same
                 ELSE [ret  |-> KB_OK,
                       pool |-> a.pool,
                       ctl  |-> [c EXCEPT
                                   !.head = IF s.tail = NULL THEN node ELSE @,
                                   !.key_num = U16(@ + 1)],
                       payload |->
                           LET filled == [a.payload EXCEPT ![node] =
                                   [keyname |-> cfg.keyname, key_id |-> cfg.key_id,
                                    hw |-> cfg.hw, next |-> NULL]]
                           IN  IF s.tail = NULL THEN filled
                               ELSE [filled EXCEPT ![s.tail].next = node]]

\* keyboard_register_key: the result code and the control block, pool and
\* payload memory after the call. The control block is an initialised one and
\* cfg points to a descriptor, so of the parameter checks the one on the name
\* remains. The lock and unlock hooks hold no state of the driver.
keyboard_register_key(cfg, c, p, hd, pl) ==
    LET same == [ctl |-> c, pool |-> p, payload |-> pl]
    IN  IF cfg.keyname = NULL
        THEN [ret |-> KB_ERR_PARAM] @@ same
        ELSE IF /\ c.backend_mode = KB_BACKEND_MATRIX
                /\ (cfg.hw.b0 >= KB_MATRIX_MAX_ROW \/ cfg.hw.b1 >= KB_MATRIX_MAX_COL)
        THEN [ret |-> KB_ERR_RANGE] @@ same
        ELSE LET s == ScanChain(pl, c.backend_mode, c.head, cfg)
             IN  IF s.dup THEN [ret |-> KB_ERR_DUPLICATE] @@ same
                 ELSE IF c.key_num >= KB_MAX_KEYS THEN [ret |-> KB_ERR_FULL] @@ same
                 ELSE LET a == mpool_alloc(p, hd, pl)
                          node == a.ret
                      IN  IF node = NULL THEN [ret |-> KB_ERR_NOMEM] @@ same
                          ELSE [ret  |-> KB_OK,
                                pool |-> a.pool,
                                ctl  |-> [c EXCEPT
                                            !.head = IF s.tail = NULL THEN node ELSE @,
                                            !.key_num = U16(@ + 1)],
                                payload |->
                                    LET filled == [a.payload EXCEPT ![node] =
                                            [keyname |-> cfg.keyname, key_id |-> cfg.key_id,
                                             hw |-> cfg.hw, next |-> NULL]]
                                    IN  IF s.tail = NULL THEN filled
                                        ELSE [filled EXCEPT ![s.tail].next = node]]

RECURSIVE Nodes(_, _, _)
\* The registry chain from node as a sequence of node addresses, following at
\* most fuel links.
Nodes(pl, node, fuel) ==
    IF node = NULL \/ fuel = 0 THEN <<>>
    ELSE <<node>> \o Nodes(pl, pl[node].next, fuel - 1)

Registry(c, pl) == Nodes(pl, c.head, KB_MAX_KEYS + 1)

\* ------------------------------------------------------------------ poll
KB_EVT_PRESS == "PRESS"
KB_EVT_RELEASE == "RELEASE"
KB_EVT_CLICK == "CLICK"
KB_EVT_LONGPRESS == "LONGPRESS"
KB_EVT_LONGPRESS_RELEASE == "LONGPRESS_RELEASE"
KB_EVT_REPEAT == "REPEAT"
KB_EVT_DOUBLE_CLICK == "DOUBLE_CLICK"

\* A step of keyboard_poll's loop works on s = [rt, pending]: the runtime
\* record of the key at hand and the events accumulated in pending_evt so far.

\* A variant with a quarter of a slot for each key.
Append_evt_small(s, node, evt) ==
    IF Len(s.pending) < KB_MAX_KEYS \div 4
    THEN [s EXCEPT !.pending = Append(@, [node |-> node, evt |-> evt])]
    ELSE s

\* pending_evt with one more event, unless its KB_MAX_KEYS * 4 slots are taken.
Append_evt(s, node, evt) ==
    IF Len(s.pending) < KB_MAX_KEYS * 4
    THEN [s EXCEPT !.pending = Append(@, [node |-> node, evt |-> evt])]
    ELSE s

\* kb_read_raw: level is what the backend primitive returns for the key (the
\* pin or column level, or the key's snapshot byte).
kb_read_raw(c, level) ==
    CASE c.backend_mode = KB_BACKEND_GPIO ->
            IF level = KB_GPIO_ACTIVE_LEVEL THEN 1 ELSE 0
      [] c.backend_mode = KB_BACKEND_MATRIX ->
            IF level = KB_MATRIX_ACTIVE_LEVEL THEN 1 ELSE 0
      [] OTHER -> IF level # 0 THEN 1 ELSE 0

\* A variant that goes on adding after the threshold is reached.
Debounce_always(rt, raw, dt) ==
    IF raw # rt.raw_last
    THEN [rt EXCEPT !.raw_last = raw, !.debounce_ms = 0]
    ELSE [rt EXCEPT !.debounce_ms = @ + dt]

\* A variant that keeps the accumulator when the raw sample changes.
Debounce_noreset(rt, raw, dt) ==
    IF raw # rt.raw_last
    THEN [rt EXCEPT !.raw_last = raw]
    ELSE IF rt.debounce_ms < KB_DEBOUNCE_MS
         THEN [rt EXCEPT !.debounce_ms = @ + dt]
         ELSE rt

\* The debounce step (raw sample against raw_last).
Debounce(rt, raw, dt) ==
    IF raw # rt.raw_last
    THEN [rt EXCEPT !.raw_last = raw, !.debounce_ms = 0]
    ELSE IF rt.debounce_ms < KB_DEBOUNCE_MS
         THEN [rt EXCEPT !.debounce_ms = @ + dt]
         ELSE rt

\* A variant that counts the second click instead of clearing the count.
ClickSequence_count2(s, node) ==
    IF s.rt.click_count = 0
    THEN [s EXCEPT !.rt.click_count = 1, !.rt.click_wait_ms = 0]
    ELSE IF s.rt.click_count = 1 /\ s.rt.click_wait_ms <= KB_DOUBLE_CLICK_MS
    THEN [Append_evt(s, node, KB_EVT_DOUBLE_CLICK)
            EXCEPT !.rt.click_count = 2, !.rt.click_wait_ms = 0]
    ELSE [s EXCEPT !.rt.click_count = 1, !.rt.click_wait_ms = 0]

\* A variant that leaves the click pending after its DOUBLE_CLICK.
ClickSequence_keep(s, node) ==
    IF s.rt.click_count = 0
    THEN [s EXCEPT !.rt.click_count = 1, !.rt.click_wait_ms = 0]
    ELSE IF s.rt.click_count = 1 /\ s.rt.click_wait_ms <= KB_DOUBLE_CLICK_MS
    THEN [Append_evt(s, node, KB_EVT_DOUBLE_CLICK) EXCEPT !.rt.click_wait_ms = 0]
    ELSE [s EXCEPT !.rt.click_count = 1, !.rt.click_wait_ms = 0]

\* The click sequencing of a release whose press did not signal long-press.
ClickSequence(s, node) ==
    IF s.rt.click_count = 0
    THEN [s EXCEPT !.rt.click_count = 1, !.rt.click_wait_ms = 0]
    ELSE IF s.rt.click_count = 1 /\ s.rt.click_wait_ms <= KB_DOUBLE_CLICK_MS
    THEN [Append_evt(s, node, KB_EVT_DOUBLE_CLICK)
            EXCEPT !.rt.click_count = 0, !.rt.click_wait_ms = 0]
    ELSE [s EXCEPT !.rt.click_count = 1, !.rt.click_wait_ms = 0]

\* The stable level has become pressed.
OnPress(s, node) ==
    Append_evt([s EXCEPT !.rt.press_ms = 0, !.rt.repeat_ms = 0, !.rt.long_sent = 0],
               node, KB_EVT_PRESS)

\* A variant that leaves the click state alone when a long press ends.
OnRelease_keepclick(s, node) ==
    LET s1 == Append_evt(s, node, KB_EVT_RELEASE)
        s2 == IF s1.rt.long_sent # 0
              THEN Append_evt(s1, node, KB_EVT_LONGPRESS_RELEASE)
              ELSE ClickSequence(s1, node)
    IN  [s2 EXCEPT !.rt.press_ms = 0, !.rt.repeat_ms = 0, !.rt.long_sent = 0]

\* The stable level has become released.
OnRelease(s, node) ==
    LET s1 == Append_evt(s, node, KB_EVT_RELEASE)
        s2 == IF s1.rt.long_sent # 0
              THEN [Append_evt(s1, node, KB_EVT_LONGPRESS_RELEASE)
                      EXCEPT !.rt.click_count = 0, !.rt.click_wait_ms = 0]
              ELSE ClickSequence(s1, node)
    IN  [s2 EXCEPT !.rt.press_ms = 0, !.rt.repeat_ms = 0, !.rt.long_sent = 0]

\* A variant that does not compare the stable level with the raw one.
Stabilise_nolevelcheck(s, node) ==
    IF s.rt.debounce_ms >= KB_DEBOUNCE_MS
    THEN LET s1 == [s EXCEPT !.rt.stable = s.rt.raw_last]
         IN  IF s1.rt.stable # 0 THEN OnPress(s1, node) ELSE OnRelease(s1, node)
    ELSE s

\* The stabilisation step: the stable level follows the raw one once the raw
\* one has been held for the debounce time.
Stabilise(s, node) ==
    IF s.rt.debounce_ms >= KB_DEBOUNCE_MS /\ s.rt.stable # s.rt.raw_last
    THEN LET s1 == [s EXCEPT !.rt.stable = s.rt.raw_last]
         IN  IF s1.rt.stable # 0 THEN OnPress(s1, node) ELSE OnRelease(s1, node)
    ELSE s

\* A variant that signals long-press whenever the threshold is passed.
LongPress_nolatch(s, node) ==
    IF s.rt.press_ms >= KB_LONGPRESS_MS
    THEN Append_evt([s EXCEPT !.rt.long_sent = 1], node, KB_EVT_LONGPRESS)
    ELSE s

\* The long-press check of a key that is stable pressed.
LongPress(s, node) ==
    IF s.rt.long_sent = 0 /\ s.rt.press_ms >= KB_LONGPRESS_MS
    THEN Append_evt([s EXCEPT !.rt.long_sent = 1], node, KB_EVT_LONGPRESS)
    ELSE s

\* The repeat timer of a key that is stable pressed.
Repeat(s, node, dt) ==
    IF s.rt.press_ms >= KB_REPEAT_START_MS
    THEN LET s1 == [s EXCEPT !.rt.repeat_ms = @ + dt]
         IN  IF s1.rt.repeat_ms >= KB_REPEAT_PERIOD_MS
             THEN Append_evt([s1 EXCEPT !.rt.repeat_ms = 0], node, KB_EVT_REPEAT)
             ELSE s1
    ELSE s

\* A key that is stable pressed.
Held(s, node, dt) ==
    Repeat(LongPress([s EXCEPT !.rt.press_ms = @ + dt], node), node, dt)

\* A variant that lets the pending click lapse without a CLICK.
ClickWait_drop(s, node, dt) ==
    IF s.rt.click_count = 1
    THEN LET s1 == [s EXCEPT !.rt.click_wait_ms = @ + dt]
         IN  IF s1.rt.click_wait_ms >= KB_DOUBLE_CLICK_MS
             THEN [s1 EXCEPT !.rt.click_count = 0, !.rt.click_wait_ms = 0]
             ELSE s1
    ELSE s

\* A variant that keeps the click pending once its CLICK is out.
ClickWait_keep(s, node, dt) ==
    IF s.rt.click_count = 1
    THEN LET s1 == [s EXCEPT !.rt.click_wait_ms = @ + dt]
         IN  IF s1.rt.click_wait_ms >= KB_DOUBLE_CLICK_MS
             THEN [Append_evt(s1, node, KB_EVT_CLICK) EXCEPT !.rt.click_wait_ms = 0]
             ELSE s1
    ELSE s

\* A key that is stable released: the double-click window of a pending click.
ClickWait(s, node, dt) ==
    IF s.rt.click_count = 1
    THEN LET s1 == [s EXCEPT !.rt.click_wait_ms = @ + dt]
         IN  IF s1.rt.click_wait_ms >= KB_DOUBLE_CLICK_MS
             THEN [Append_evt(s1, node, KB_EVT_CLICK)
                     EXCEPT !.rt.click_count = 0, !.rt.click_wait_ms = 0]
             ELSE s1
    ELSE s

\* A variant that runs the held-key timers whatever the stable level is.
KeyStep_alwaysheld(s, node, raw, dt) ==
    Held(Stabilise([s EXCEPT !.rt = Debounce(@, raw, dt)], node), node, dt)

\* One pass of the loop: the key at node with raw sample raw.
KeyStep(s, node, raw, dt) ==
    LET s1 == Stabilise([s EXCEPT !.rt = Debounce(@, raw, dt)], node)
    IN  IF s1.rt.stable # 0 THEN Held(s1, node, dt) ELSE ClickWait(s1, node, dt)

RECURSIVE PollLoop(_, _, _, _, _, _, _, _)
\* The loop of keyboard_poll from node at index idx: the runtime table and
\* pending_evt when it ends. levels[idx] is what the backend returns for the
\* key at idx.
PollLoop(c, pl, rts, pending, node, idx, levels, dt) ==
    IF node # NULL /\ idx < c.key_num /\ idx < KB_MAX_KEYS
    THEN LET raw == kb_read_raw(c, levels[idx])
             s   == KeyStep([rt |-> rts[idx], pending |-> pending], node, raw, dt)
         IN  PollLoop(c, pl, [rts EXCEPT ![idx] = s.rt], s.pending,
                      pl[node].next, idx + 1, levels, dt)
    ELSE [key_rt |-> rts, pending |-> pending]

\* kb_emit_event over pending_evt: the calls of on_event, in order.
Delivered(c, pl, pending) ==
    IF c.on_event
    THEN [i \in 1 .. Len(pending) |->
            [key_id |-> pl[pending[i].node].key_id, evt |-> pending[i].evt]]
    ELSE <<>>

\* A variant that goes on to the loop whatever scan_snapshot returns.
keyboard_poll_anysnapshot(c, pl, rts, dt, levels, snap_ret) ==
    IF dt = 0 THEN [key_rt |-> rts, events |-> <<>>, ran |-> FALSE]
    ELSE IF c.backend_mode = KB_BACKEND_CUSTOM /\ ~c.scan_snapshot
    THEN [key_rt |-> rts, events |-> <<>>, ran |-> FALSE]
    ELSE LET r == PollLoop(c, pl, rts, <<>>, c.head, 0, levels, dt)
         IN  [key_rt |-> r.key_rt, events |-> Delivered(c, pl, r.pending), ran |-> TRUE]

\* keyboard_poll: the runtime table after it and the callbacks it made.
\* snap_ret is what scan_snapshot returns on the custom backend.
keyboard_poll(c, pl, rts, dt, levels, snap_ret) ==
    IF dt = 0 THEN [key_rt |-> rts, events |-> <<>>, ran |-> FALSE]
    ELSE IF c.backend_mode = KB_BACKEND_CUSTOM /\ (~c.scan_snapshot \/ snap_ret # 0)
    THEN [key_rt |-> rts, events |-> <<>>, ran |-> FALSE]
    ELSE LET r == PollLoop(c, pl, rts, <<>>, c.head, 0, levels, dt)
         IN  [key_rt |-> r.key_rt, events |-> Delivered(c, pl, r.pending), ran |-> TRUE]

\* What one pass of the loop and the delivery do, as a caller with a probe on
\* key_rt and on on_event would see it: "update" of the record at idx, "callback"
\* for an event.
TraceUpdate(idx) == [what |-> "update", idx |-> idx, key_id |-> 0, evt |-> "none"]
TraceCallback(c, pl, e) ==
    [what |-> "callback", idx |-> 0, key_id |-> pl[e.node].key_id, evt |-> e.evt]
TraceCallbacks(c, pl, pending) ==
    IF c.on_event THEN [i \in 1 .. Len(pending) |-> TraceCallback(c, pl, pending[i])]
    ELSE <<>>

RECURSIVE TraceLoop_immediate(_, _, _, _, _, _, _, _)
\* A variant that calls on_event for a key's events as soon as the key is done.
TraceLoop_immediate(c, pl, rts, pending, node, idx, levels, dt) ==
    IF node # NULL /\ idx < c.key_num /\ idx < KB_MAX_KEYS
    THEN LET raw == kb_read_raw(c, levels[idx])
             s   == KeyStep([rt |-> rts[idx], pending |-> <<>>], node, raw, dt)
         IN  <<TraceUpdate(idx)>> \o TraceCallbacks(c, pl, s.pending) \o
             TraceLoop_immediate(c, pl, [rts EXCEPT ![idx] = s.rt], <<>>,
                                 pl[node].next, idx + 1, levels, dt)
    ELSE <<>>

RECURSIVE TraceLoop(_, _, _, _, _, _, _, _)
\* The loop of keyboard_poll and the delivery loop after it, as the sequence of
\* record updates and callbacks they make.
TraceLoop(c, pl, rts, pending, node, idx, levels, dt) ==
    IF node # NULL /\ idx < c.key_num /\ idx < KB_MAX_KEYS
    THEN LET raw == kb_read_raw(c, levels[idx])
             s   == KeyStep([rt |-> rts[idx], pending |-> pending], node, raw, dt)
         IN  <<TraceUpdate(idx)>> \o
             TraceLoop(c, pl, [rts EXCEPT ![idx] = s.rt], s.pending,
                       pl[node].next, idx + 1, levels, dt)
    ELSE TraceCallbacks(c, pl, pending)

\* keyboard_poll as the sequence of record updates and callbacks it makes.
PollTrace(c, pl, rts, dt, levels, snap_ret) ==
    IF dt = 0 THEN <<>>
    ELSE IF c.backend_mode = KB_BACKEND_CUSTOM /\ (~c.scan_snapshot \/ snap_ret # 0)
    THEN <<>>
    ELSE TraceLoop(c, pl, rts, <<>>, c.head, 0, levels, dt)

\* ------------------------------------------------- calls and their results
NoCall == [name |-> "none", arg |-> NULL, ret |-> NULL]

\* -------------------------------------------------- the pool on its own
\* A pool of count blocks right after mpool_init; no keyboard is attached.
InitPool ==
    \E count \in 0 .. MaxCount, bs \in BlkSizes :
        LET r == mpool_init(BufAddr, bs, count)
        IN  /\ pool = r.pool
            /\ hdr = r.hdr
            /\ payload = [a \in {} |-> ZeroQue]
            /\ live = {}
            /\ op = [name |-> "init", arg |-> count, ret |-> NULL]
            /\ prev = NoCall
            /\ pre = [pool |-> r.pool, hdr |-> r.hdr]
            /\ log = <<>>
            /\ noFree = TRUE
            /\ ctl = NoCtl
            /\ key_rt = <<>>
            /\ events = <<>>
            /\ h = <<>>

\* A call of mpool_alloc. live is the caller's set of handles it holds, log the
\* results of the calls made so far while nothing has been released.
PoolAlloc ==
    LET r == mpool_alloc(pool, hdr, payload)
    IN  /\ pool' = r.pool
        /\ payload' = r.payload
        /\ live' = live \cup ({r.ret} \ {NULL})
        /\ op' = [name |-> "alloc", arg |-> NULL, ret |-> r.ret]
        /\ prev' = op
        /\ pre' = [pool |-> pool, hdr |-> hdr]
        /\ log' = IF noFree /\ Len(log) < MaxLog THEN Append(log, r.ret) ELSE log
        /\ UNCHANGED <<hdr, noFree, ctl, key_rt, events, h>>

\* A call of mpool_free on a handle the caller holds, or on NULL.
PoolFree(ptr) ==
    LET r == mpool_free(pool, hdr, ptr)
    IN  /\ pool' = r.pool
        /\ hdr' = r.hdr
        /\ live' = live \ {ptr}
        /\ op' = [name |-> "free", arg |-> ptr, ret |-> NULL]
        /\ prev' = op
        /\ pre' = [pool |-> pool, hdr |-> hdr]
        /\ noFree' = (noFree /\ ptr = NULL)
        /\ UNCHANGED <<payload, log, ctl, key_rt, events, h>>

NextPool ==
    \/ PoolAlloc
    \/ \E ptr \in live \cup {NULL} : PoolFree(ptr)

SpecPool == InitPool /\ [][NextPool]_vars

\* ----------------------------------------------------------------- C1
\* C1: for a pool initialised with at least one block, after every sequence of
\* mpool_alloc calls and mpool_free calls on handles currently allocated,
\* used <= total and the free list holds total - used blocks, the number
\* mpool_free_count reports.
PoolCountInvariant ==
    pool.total >= 1 =>
        /\ pool.used <= pool.total
        /\ Len(FreeList(pool, hdr)) = pool.total - pool.used
        /\ Len(FreeList(pool, hdr)) = mpool_free_count(pool)
        /\ mpool_used_count(pool) = Cardinality(live)

\* A pool of several blocks with some allocated, after a release.
PoolCountWitness ==
    /\ pool.total >= 2
    /\ op.name = "free" /\ op.arg # NULL
    /\ pool.used >= 1
    /\ Len(FreeList(pool, hdr)) >= 1

\* ----------------------------------------------------------------- C2
\* C2: for a pool initialised with total >= 1 blocks and no release so far, each
\* of the first total calls of mpool_alloc returns a non-null block different
\* from all earlier ones, and the call after them returns NULL and leaves used
\* and the free list as they were.
AllocUntilExhausted ==
    (pool.total >= 1 /\ noFree) =>
        /\ \A i \in 1 .. Len(log) :
              IF i <= pool.total
              THEN log[i] # NULL /\ \A j \in 1 .. i - 1 : log[j] # log[i]
              ELSE log[i] = NULL
        /\ (op.name = "alloc" /\ Len(log) = pool.total + 1) =>
              /\ pool.used = pre.pool.used
              /\ FreeList(pool, hdr) = FreeList(pre.pool, pre.hdr)

\* The call after the last successful one has just returned.
AllocUntilExhaustedWitness ==
    /\ pool.total >= 2 /\ noFree
    /\ op.name = "alloc"
    /\ Len(log) = pool.total + 1

\* ----------------------------------------------------------------- C3
\* C3: an mpool_alloc that directly follows mpool_free(h) of an allocated
\* handle h returns h.
LifoReuse ==
    (op.name = "alloc" /\ prev.name = "free" /\ prev.arg # NULL) =>
        op.ret = prev.arg

\* A release with other blocks still free, then an allocation.
LifoReuseWitness ==
    /\ op.name = "alloc" /\ prev.name = "free" /\ prev.arg # NULL
    /\ op.ret # NULL
    /\ pool.free_list # NULL
    /\ pool.used >= 2

\* ---------------------------------------------- what a caller observes
\* h records, for the key registered first, what its samples, the tick deltas
\* and the callbacks so far amount to:
\*   lastRaw   the raw sample of the last tick
\*   actMs     tick time since the first of the consecutive active samples that
\*             began while the key was stable released, up to KB_DEBOUNCE_MS
\*             (-1: no such run); pressCnt: the PRESS events of that run
\*   glitch    "active" while such a run began in Idle and is shorter than
\*             KB_DEBOUNCE_MS, "reverted" once it ended that short and the
\*             samples have been inactive since
\*   down      a PRESS has been delivered and no RELEASE since; heldMs: tick
\*             time since, the PRESS tick included; longCnt, repCnt: the
\*             LONGPRESS and REPEAT events since
\*   crossed   the k for which heldMs passed KB_LONGPRESS_MS + KB_REPEAT_START_MS
\*             + k * KB_REPEAT_PERIOD_MS in the last tick
\*   sinceRep  tick time since the last REPEAT of this press; gap: that time at
\*             the REPEAT delivered in the last tick, gapBefore: and one tick
\*             before it
\*   relMs     tick time since the last RELEASE, its tick included, up to
\*             KB_DOUBLE_CLICK_MS (-1: pressed, or never released);
\*             clicks, dbls: the CLICK and DOUBLE_CLICK events since
\*   prevShort the press that RELEASE ended delivered no LONGPRESS; tap: and no
\*             click was pending when it was released
\*   quick     the current press followed a short press within the window;
\*             quickTap: one released with no click pending
\*   pair      the last RELEASE ended the second of two short presses, the
\*             second of which came within the window; pairTap: and the first
\*             was released with no click pending; wC, wD: the CLICK and
\*             DOUBLE_CLICK events since the first RELEASE of the two;
\*             dAtRel: the DOUBLE_CLICK events of the second RELEASE tick
\*   afterLong the last RELEASE ended a press that delivered LONGPRESS
\*   pendAtRel the last tick delivered RELEASE and a click was pending before it
\*   owed      the presses released without LONGPRESS so far, less one for each
\*             CLICK and two for each DOUBLE_CLICK, within -1 .. 2; owedX: the
\*             same, started afresh at the RELEASE of a press that delivered
\*             LONGPRESS
\*   orderly   the events of the last tick fit what came before: at most one of
\*             PRESS and RELEASE, PRESS only when not down and RELEASE only when
\*             down, LONGPRESS and REPEAT only when down or after the PRESS of
\*             the tick and not in a tick with RELEASE, CLICK only when not down
\*             or after the RELEASE of the tick
NoHistory ==
    [lastRaw |-> 0, actMs |-> -1, pressCnt |-> 0, glitch |-> "none",
     down |-> FALSE, heldMs |-> 0, longCnt |-> 0, repCnt |-> 0,
     crossed |-> {}, sinceRep |-> -1, gap |-> -1, gapBefore |-> -1,
     relMs |-> -1, clicks |-> 0, dbls |-> 0, prevShort |-> FALSE, tap |-> FALSE,
     quick |-> FALSE, quickTap |-> FALSE, carryC |-> 0, carryD |-> 0,
     pair |-> FALSE, pairTap |-> FALSE, wC |-> 0, wD |-> 0, dAtRel |-> 0,
     afterLong |-> FALSE, pendAtRel |-> FALSE, owed |-> 0, owedX |-> 0,
     orderly |-> TRUE]

Min(a, b) == IF a < b THEN a ELSE b
Max(a, b) == IF a > b THEN a ELSE b

\* How often evt is among the events evs.
Cnt(evs, evt) == Cardinality({i \in 1 .. Len(evs) : evs[i] = evt})

\* The press duration past which the k-th REPEAT is due by the long-press and
\* repeat-start thresholds taken together.
RepeatDue(k) == KB_LONGPRESS_MS + KB_REPEAT_START_MS + k * KB_REPEAT_PERIOD_MS

\* h after a tick of dt in which the key, with runtime record rt0 before it,
\* was sampled raw and the callbacks evs were made for it.
Observe(o, rt0, raw, dt, evs) ==
    LET pressed  == Cnt(evs, KB_EVT_PRESS) > 0
        released == Cnt(evs, KB_EVT_RELEASE) > 0
        nClick   == Cnt(evs, KB_EVT_CLICK)
        nDbl     == Cnt(evs, KB_EVT_DOUBLE_CLICK)
        nLong    == Cnt(evs, KB_EVT_LONGPRESS)
        nRep     == Cnt(evs, KB_EVT_REPEAT)
        starts   == raw = 1 /\ o.lastRaw = 0 /\ rt0.stable = 0
        goesOn   == raw = 1 /\ o.lastRaw = 1 /\ o.actMs >= 0
        actMs    == IF starts THEN 0
                    ELSE IF goesOn THEN Min(o.actMs + dt, KB_DEBOUNCE_MS)
                    ELSE -1
        pressCnt == IF starts THEN Min(Cnt(evs, KB_EVT_PRESS), 2)
                    ELSE IF goesOn THEN Min(o.pressCnt + Cnt(evs, KB_EVT_PRESS), 2)
                    ELSE 0
        glitch   == IF raw = 1
                    THEN IF starts /\ rt0.click_count = 0 THEN "active"
                         ELSE IF o.glitch = "active" /\ actMs < KB_DEBOUNCE_MS
                              THEN "active" ELSE "none"
                    ELSE IF o.glitch \in {"active", "reverted"} THEN "reverted"
                         ELSE "none"
        heldMs   == IF pressed THEN dt
                    ELSE IF released \/ ~o.down THEN 0
                    ELSE o.heldMs + dt
        short    == o.longCnt = 0
        quick    == o.prevShort /\ o.relMs >= 0 /\ o.relMs < KB_DOUBLE_CLICK_MS
    IN  [lastRaw  |-> raw,
         actMs    |-> actMs,
         pressCnt |-> pressCnt,
         glitch   |-> glitch,
         down     |-> IF pressed THEN TRUE ELSE IF released THEN FALSE ELSE o.down,
         heldMs   |-> heldMs,
         longCnt  |-> IF pressed THEN Min(nLong, 2)
                      ELSE IF released \/ ~o.down THEN 0
                      ELSE Min(o.longCnt + nLong, 2),
         repCnt   |-> IF pressed THEN Min(nRep, MaxRep)
                      ELSE IF released \/ ~o.down THEN 0
                      ELSE Min(o.repCnt + nRep, MaxRep),
         crossed  |-> IF released \/ ~(pressed \/ o.down) THEN {}
                      ELSE {k \in 0 .. MaxRep - 1 :
                              /\ (IF pressed THEN 0 ELSE o.heldMs) < RepeatDue(k)
                              /\ heldMs >= RepeatDue(k)},
         sinceRep |-> IF released \/ ~(pressed \/ o.down) THEN -1
                      ELSE IF nRep > 0 THEN 0
                      ELSE IF pressed \/ o.sinceRep < 0 THEN -1
                      ELSE o.sinceRep + dt,
         gap      |-> IF ~pressed /\ ~released /\ o.down /\ nRep > 0 /\ o.sinceRep >= 0
                      THEN o.sinceRep + dt ELSE -1,
         gapBefore |-> IF ~pressed /\ ~released /\ o.down /\ nRep > 0 /\ o.sinceRep >= 0
                       THEN o.sinceRep ELSE -1,
         relMs    |-> IF released THEN Min(dt, KB_DOUBLE_CLICK_MS)
                      ELSE IF pressed \/ o.relMs < 0 THEN -1
                      ELSE Min(o.relMs + dt, KB_DOUBLE_CLICK_MS),
         clicks   |-> IF released THEN Min(nClick, 2)
                      ELSE IF pressed \/ o.relMs < 0 THEN 0
                      ELSE Min(o.clicks + nClick, 2),
         dbls     |-> IF released THEN Min(nDbl, 2)
                      ELSE IF pressed \/ o.relMs < 0 THEN 0
                      ELSE Min(o.dbls + nDbl, 2),
         prevShort |-> IF released THEN short ELSE IF pressed THEN FALSE ELSE o.prevShort,
         tap      |-> IF released THEN short /\ rt0.click_count = 0
                      ELSE IF pressed THEN FALSE ELSE o.tap,
         quick    |-> IF pressed THEN quick ELSE IF released THEN FALSE ELSE o.quick,
         quickTap |-> IF pressed THEN quick /\ o.tap
                      ELSE IF released THEN FALSE ELSE o.quickTap,
         carryC   |-> IF pressed THEN (IF quick THEN o.clicks ELSE 0)
                      ELSE IF released THEN 0 ELSE o.carryC,
         carryD   |-> IF pressed THEN (IF quick THEN o.dbls ELSE 0)
                      ELSE IF released THEN 0 ELSE o.carryD,
         pair     |-> IF released THEN o.quick /\ short
                      ELSE IF pressed THEN FALSE ELSE o.pair,
         pairTap  |-> IF released THEN o.quickTap /\ short
                      ELSE IF pressed THEN FALSE ELSE o.pairTap,
         wC       |-> IF released THEN (IF o.quick /\ short THEN Min(o.carryC + nClick, 2) ELSE 0)
                      ELSE IF pressed THEN 0
                      ELSE IF o.pair THEN Min(o.wC + nClick, 2) ELSE 0,
         wD       |-> IF released THEN (IF o.quick /\ short THEN Min(o.carryD + nDbl, 2) ELSE 0)
                      ELSE IF pressed THEN 0
                      ELSE IF o.pair THEN Min(o.wD + nDbl, 2) ELSE 0,
         dAtRel   |-> IF released THEN (IF o.quick /\ short THEN Min(nDbl, 2) ELSE 0)
                      ELSE IF pressed THEN 0 ELSE o.dAtRel,
         afterLong |-> IF released THEN ~short ELSE o.afterLong,
         pendAtRel |-> released /\ rt0.click_count = 1,
         owed     |-> Max(-1, Min(2, (IF released /\ short THEN o.owed + 1 ELSE o.owed)
                                      - nClick - 2 * nDbl)),
         owedX    |-> Max(-1, Min(2, (IF released
                                      THEN (IF short THEN o.owedX + 1 ELSE 0)
                                      ELSE o.owedX)
                                      - nClick - 2 * nDbl)),
         orderly  |-> /\ Cnt(evs, KB_EVT_PRESS) + Cnt(evs, KB_EVT_RELEASE) <= 1
                      /\ pressed => ~o.down
                      /\ released => o.down
                      /\ \A i \in 1 .. Len(evs) :
                            evs[i] \in {KB_EVT_LONGPRESS, KB_EVT_REPEAT} =>
                                /\ ~released
                                /\ o.down \/ \E j \in 1 .. i - 1 : evs[j] = KB_EVT_PRESS
                      /\ \A i \in 1 .. Len(evs) :
                            evs[i] = KB_EVT_CLICK =>
                                /\ ~pressed
                                /\ ~o.down \/ \E j \in 1 .. i - 1 : evs[j] = KB_EVT_RELEASE]

\* ------------------------------------------------------------ polling alone
\* The events among the callbacks evs that are for the key with id.
EventsOf(evs, id) ==
    LET F[i \in 0 .. Len(evs)] ==
            IF i = 0 THEN <<>>
            ELSE IF evs[i].key_id = id THEN Append(F[i - 1], evs[i].evt) ELSE F[i - 1]
    IN  F[Len(evs)]

\* One key is registered on the configured backend and no tick has run.
InitPoll ==
    LET i == keyboard_init(KB_BACKEND_MODE, AllOps, [on_event |-> TRUE])
        r == keyboard_register_key(
                [keyname |-> StrAddr(1), key_id |-> 1, hw |-> [b0 |-> 0, b1 |-> 0]],
                i.ctl, i.pool, i.hdr, [a \in {} |-> ZeroQue])
    IN  /\ i.ret = KB_OK /\ r.ret = KB_OK
        /\ pool = r.pool
        /\ hdr = i.hdr
        /\ payload = r.payload
        /\ ctl = r.ctl
        /\ key_rt = i.key_rt
        /\ events = <<>>
        /\ live = {}
        /\ op = [name |-> "init", arg |-> KB_BACKEND_MODE, ret |-> KB_OK]
        /\ prev = NoCall
        /\ pre = <<>>
        /\ log = <<>>
        /\ noFree = TRUE
        /\ h = NoHistory

\* A call of keyboard_poll with delta dt while the backend returns levels[i]
\* for the key at index i and scan_snapshot returns snap_ret.
Poll(dt, levels, snap_ret) ==
    LET r == keyboard_poll(ctl, payload, key_rt, dt, levels, snap_ret)
    IN  /\ \A i \in 0 .. ctl.key_num - 1 : r.key_rt[i].press_ms <= MaxPressMs
        /\ key_rt' = r.key_rt
        /\ events' = r.events
        /\ h' = IF r.ran /\ ctl.head # NULL
                THEN Observe(h, key_rt[0], kb_read_raw(ctl, levels[0]), dt,
                             EventsOf(r.events, payload[ctl.head].key_id))
                ELSE h
        /\ UNCHANGED <<pool, hdr, payload, ctl, live, op, prev, pre, log, noFree>>

NextPoll ==
    \E dt \in Deltas \cup {0}, levels \in [0 .. ctl.key_num - 1 -> {0, 1}] :
        Poll(dt, levels, 0)

SpecPoll == InitPoll /\ [][NextPoll]_vars

\* The events of the last tick for the key registered first.
KeyEvents == EventsOf(events, payload[ctl.head].key_id)

\* ----------------------------------------------------------------- C4
\* C4: when the raw level of an Idle key (stable released, no click pending)
\* goes active and reverts to inactive before KB_DEBOUNCE_MS of tick time have
\* accumulated, and then stays inactive, no tick of this episode delivers an
\* event for the key.
NoEventOnGlitch ==
    h.glitch \in {"active", "reverted"} => KeyEvents = <<>>

\* The level was active for two samples, went back, and has been inactive for
\* the debounce time since.
NoEventOnGlitchWitness ==
    /\ h.glitch = "reverted"
    /\ key_rt[0].raw_last = 0 /\ key_rt[0].debounce_ms >= KB_DEBOUNCE_MS
    /\ key_rt[0].stable = 0 /\ key_rt[0].click_count = 0

\* ----------------------------------------------------------------- C5
\* C5: for a key that is stable released, in a run of consecutive active
\* samples exactly one PRESS is delivered, in the tick in which the tick time
\* accumulated since the first active sample reaches KB_DEBOUNCE_MS: none while
\* it is below, one from then on for as long as the level stays active.
OnePressPerRun ==
    h.actMs >= 0 => h.pressCnt = (IF h.actMs >= KB_DEBOUNCE_MS THEN 1 ELSE 0)

\* The key has been held well past its one PRESS.
OnePressPerRunWitness ==
    /\ h.actMs >= KB_DEBOUNCE_MS /\ h.pressCnt = 1
    /\ h.lastRaw = 1 /\ h.heldMs >= KB_LONGPRESS_MS

\* ----------------------------------------------------------------- C6
\* C6: between a PRESS and the next RELEASE at most one LONGPRESS is delivered,
\* and exactly one once the accumulated press duration has reached
\* KB_LONGPRESS_MS, however long the key is held after that.
LongPressOnce ==
    h.down =>
        /\ h.longCnt <= 1
        /\ (h.heldMs >= KB_LONGPRESS_MS \/ key_rt[0].press_ms >= KB_LONGPRESS_MS)
                => h.longCnt = 1

\* The key is still held long after its LONGPRESS.
LongPressOnceWitness ==
    /\ h.down /\ h.longCnt = 1
    /\ h.heldMs >= KB_LONGPRESS_MS + KB_REPEAT_START_MS

\* ----------------------------------------------------------------- C7
\* C7: for a key held pressed, in the tick in which its accumulated press
\* duration passes KB_LONGPRESS_MS + KB_REPEAT_START_MS + k * KB_REPEAT_PERIOD_MS
\* exactly k REPEAT events have been delivered for that press, and a REPEAT
\* follows the one before it in the first tick at which one repeat period of
\* tick time has accumulated.
RepeatCountAtDue ==
    /\ \A k \in h.crossed : h.repCnt = k
    /\ h.gap >= 0 => (h.gapBefore < KB_REPEAT_PERIOD_MS /\ h.gap >= KB_REPEAT_PERIOD_MS)

\* ----------------------------------------------------------------- C8
\* C8: after a press that delivered no LONGPRESS is released with no click
\* pending, while the key stays stable released exactly one CLICK is delivered,
\* in the first tick at which the tick time accumulated since the release (its
\* tick included) reaches KB_DOUBLE_CLICK_MS: none before, one from then on.
SingleClickAfterWindow ==
    h.tap => h.clicks = (IF h.relMs >= KB_DOUBLE_CLICK_MS THEN 1 ELSE 0)

\* The CLICK of a tap is out and the key has stayed released after it.
SingleClickAfterWindowWitness ==
    /\ h.tap /\ h.clicks = 1 /\ h.relMs >= KB_DOUBLE_CLICK_MS
    /\ KeyEvents = <<>> /\ events = <<>>
    /\ key_rt[0].debounce_ms >= KB_DEBOUNCE_MS

\* ----------------------------------------------------------------- C9
\* The events since the first RELEASE of two presses in a row are one
\* DOUBLE_CLICK, delivered in the tick of the second RELEASE, and no CLICK.
OneDoubleClick == h.dAtRel = 1 /\ h.wD = 1 /\ h.wC = 0

Backends == {KB_BACKEND_GPIO, KB_BACKEND_MATRIX, KB_BACKEND_CUSTOM}

\* The descriptors passed to keyboard_register_key.
Cfgs ==
    {[keyname |-> n, key_id |-> id, hw |-> [b0 |-> x, b1 |-> y]] :
        n \in {NULL, StrAddr(0)}, id \in 1 .. MaxKeyId, x \in HwB0, y \in HwB1}

\* The state keyboard_init leaves, for each backend the driver can be built with.
InitReg ==
    \E mode \in Backends :
        LET r == keyboard_init(mode, AllOps, [on_event |-> TRUE])
        IN  /\ r.ret = KB_OK
            /\ pool = r.pool
            /\ hdr = r.hdr
            /\ payload = [a \in {} |-> ZeroQue]
            /\ ctl = r.ctl
            /\ key_rt = r.key_rt
            /\ events = <<>>
            /\ live = {}
            /\ op = [name |-> "init", arg |-> mode, ret |-> r.ret]
            /\ prev = NoCall
            /\ pre = [ctl |-> r.ctl, pool |-> r.pool, hdr |-> r.hdr,
                      payload |-> [a \in {} |-> ZeroQue]]
            /\ log = <<>>
            /\ noFree = TRUE
            /\ h = <<>>

\* What a call of keyboard_register_key with cfg does to the state.
Registered(cfg) ==
    LET r == keyboard_register_key(cfg, ctl, pool, hdr, payload)
    IN  /\ ctl' = r.ctl
        /\ pool' = r.pool
        /\ payload' = r.payload
        /\ op' = [name |-> "register", arg |-> cfg, ret |-> r.ret]
        /\ pre' = [ctl |-> ctl, pool |-> pool, hdr |-> hdr, payload |-> payload]
        /\ UNCHANGED <<hdr, key_rt, events, live, prev, log, noFree, h>>

RegisterKey(cfg) == Registered(cfg)

\* keyboard_register_gpio: only gpio_pin of the union is set; its second byte
\* is whatever the stack held.
RegisterGpio(pin, key_name, key_id) ==
    \E junk \in HwB1 :
        Registered([keyname |-> key_name, key_id |-> key_id,
                    hw |-> [b0 |-> pin, b1 |-> junk]])

\* keyboard_register_matrix
RegisterMatrix(row, col, key_name, key_id) ==
    Registered([keyname |-> key_name, key_id |-> key_id,
                hw |-> [b0 |-> row, b1 |-> col]])

NextReg ==
    \/ \E cfg \in Cfgs : RegisterKey(cfg)
    \/ \E pin \in HwB0, n \in {NULL, StrAddr(0)}, id \in 1 .. MaxKeyId :
            RegisterGpio(pin, n, id)
    \/ \E row \in HwB0, col \in HwB1, n \in {NULL, StrAddr(0)}, id \in 1 .. MaxKeyId :
            RegisterMatrix(row, col, n, id)

SpecReg == InitReg /\ [][NextReg]_vars

\* ------------------------------------------------------------------ C10
\* The 16-bit hw_code made of the two bytes of a location.
HwCode(hw) == hw.b0 + 256 * hw.b1

\* Two locations are the same key for the backend: the same pin, the same row
\* and column, or the same raw code.
SameLocation(mode, a, b) ==
    IF mode = KB_BACKEND_GPIO THEN a.b0 = b.b0
    ELSE IF mode = KB_BACKEND_MATRIX THEN <<a.b0, a.b1>> = <<b.b0, b.b1>>
    ELSE HwCode(a) = HwCode(b)

InRange(mode, hw) ==
    mode = KB_BACKEND_MATRIX => (hw.b0 < KB_MATRIX_MAX_ROW /\ hw.b1 < KB_MATRIX_MAX_COL)

PreHw(mode, i) ==
    IF mode = KB_BACKEND_MATRIX
    THEN [b0 |-> i \div KB_MATRIX_MAX_COL, b1 |-> i % KB_MATRIX_MAX_COL]
    ELSE [b0 |-> i, b1 |-> 0]

RECURSIVE RegisterAll(_, _, _)
\* The state after keyboard_register_key has been called for the keys with ids
\* 1 .. n at PreHw, from the state st = [ret, ctl, pool, payload].
RegisterAll(n, st, hd) ==
    IF n = 0 THEN st
    ELSE LET before == RegisterAll(n - 1, st, hd)
         IN  keyboard_register_key(
                 [keyname |-> StrAddr(n), key_id |-> n,
                  hw |-> PreHw(before.ctl.backend_mode, n - 1)],
                 before.ctl, before.pool, hd, before.payload)

\* The descriptors passed to keyboard_register_key in SpecFull: ids and
\* locations some of which are in the table and some of which are not, with
\* one new id more than the table has free slots.
FullCfgs ==
    {[keyname |-> StrAddr(0), key_id |-> id, hw |-> [b0 |-> x, b1 |-> 7]] :
        id \in {1} \cup (101 .. 101 + Spare), x \in {0, 7, 40}}
    \cup {[keyname |-> NULL, key_id |-> 101, hw |-> [b0 |-> 7, b1 |-> 7]]}

\* keyboard_init and then KB_MAX_KEYS - Spare successful registrations.
InitFull ==
    \E mode \in Backends :
        LET i == keyboard_init(mode, AllOps, [on_event |-> TRUE])
            r == RegisterAll(KB_MAX_KEYS - Spare,
                             [ret |-> KB_OK, ctl |-> i.ctl, pool |-> i.pool,
                              payload |-> [a \in {} |-> ZeroQue]], i.hdr)
        IN  /\ i.ret = KB_OK /\ r.ret = KB_OK
            /\ r.ctl.key_num = KB_MAX_KEYS - Spare
            /\ pool = r.pool
            /\ hdr = i.hdr
            /\ payload = r.payload
            /\ ctl = r.ctl
            /\ key_rt = i.key_rt
            /\ events = <<>>
            /\ live = {}
            /\ op = [name |-> "init", arg |-> mode, ret |-> i.ret]
            /\ prev = NoCall
            /\ pre = [ctl |-> r.ctl, pool |-> r.pool, hdr |-> i.hdr, payload |-> r.payload]
            /\ log = <<>>
            /\ noFree = TRUE
            /\ h = <<>>

NextFull == \E cfg \in FullCfgs : RegisterKey(cfg)

SpecFull == InitFull /\ [][NextFull]_vars

\* ------------------------------------------------------------------ C11
\* C11: a keyboard_register_key call that returns an error (parameter, range,
\* duplicate, full, no memory) leaves the registry chain and its nodes, key_num,
\* the pool's used count and the pool's free list as they were before the call.
RegisterErrorNoChange ==
    (op.name = "register" /\ op.ret # KB_OK) =>
        /\ op.ret \in {KB_ERR_PARAM, KB_ERR_RANGE, KB_ERR_DUPLICATE, KB_ERR_FULL, KB_ERR_NOMEM}
        /\ Registry(ctl, payload) = Registry(pre.ctl, pre.payload)
        /\ payload = pre.payload
        /\ ctl = pre.ctl
        /\ pool.used = pre.pool.used
        /\ pool = pre.pool
        /\ FreeList(pool, hdr) = FreeList(pre.pool, pre.hdr)

\* A descriptor with a new id and a new location in range has just been refused
\* because the table holds KB_MAX_KEYS keys.
RegisterErrorNoChangeWitness ==
    /\ op.name = "register" /\ op.ret = KB_ERR_FULL
    /\ ctl.key_num = KB_MAX_KEYS
    /\ Len(Registry(ctl, payload)) = KB_MAX_KEYS

\* ------------------------------------------- polling several keys, custom backend
\* keyboard_init on the custom backend, with or without scan_snapshot in the
\* operation table, and then a registration for each of KeyIds.
InitKeys ==
    \E scan \in BOOLEAN :
        LET i == keyboard_init(KB_BACKEND_CUSTOM, [AllOps EXCEPT !.scan_snapshot = scan],
                               [on_event |-> TRUE])
            r == RegisterAll(Cardinality(KeyIds),
                             [ret |-> KB_OK, ctl |-> i.ctl, pool |-> i.pool,
                              payload |-> [a \in {} |-> ZeroQue]], i.hdr)
        IN  /\ i.ret = KB_OK /\ r.ret = KB_OK
            /\ pool = r.pool
            /\ hdr = i.hdr
            /\ payload = r.payload
            /\ ctl = r.ctl
            /\ key_rt = i.key_rt
            /\ events = <<>>
            /\ live = {}
            /\ op = [name |-> "init", arg |-> 0, snap |-> 0, ret |-> TRUE]
            /\ prev = NoCall
            /\ pre = [key_rt |-> i.key_rt]
            /\ log = <<>>
            /\ noFree = TRUE
            /\ h = <<>>

\* A call of keyboard_poll with delta dt while scan_snapshot, if there is one,
\* returns snap_ret and fills the snapshot with levels. op.ret tells whether the
\* call got as far as the loop, log is what it did.
PollKeys(dt, levels, snap_ret) ==
    LET r == keyboard_poll(ctl, payload, key_rt, dt, levels, snap_ret)
    IN  /\ \A i \in 0 .. ctl.key_num - 1 : r.key_rt[i].press_ms <= KeysMaxPressMs
        /\ key_rt' = r.key_rt
        /\ events' = r.events
        /\ op' = [name |-> "poll", arg |-> dt, snap |-> snap_ret, ret |-> r.ran]
        /\ pre' = [key_rt |-> key_rt]
        /\ log' = PollTrace(ctl, payload, key_rt, dt, levels, snap_ret)
        /\ UNCHANGED <<pool, hdr, payload, ctl, live, prev, noFree, h>>

NextKeys ==
    \E dt \in KeysDeltas \cup {0}, levels \in [0 .. ctl.key_num - 1 -> {0, 1}],
       snap_ret \in {0, -1} :
        PollKeys(dt, levels, snap_ret)

SpecKeys == InitKeys /\ [][NextKeys]_vars

\* ------------------------------------------------------------------ C12
\* The call of keyboard_poll just made had a reason to abort: a zero delta, no
\* scan_snapshot on the custom backend, or a scan_snapshot that failed.
AbortCause ==
    /\ op.name = "poll"
    /\ \/ op.arg = 0
       \/ ctl.backend_mode = KB_BACKEND_CUSTOM /\ (~ctl.scan_snapshot \/ op.snap # 0)

\* C12: a keyboard_poll call with a reason to abort makes no callback and
\* leaves every runtime record as it was, so that any next tick gives what it
\* would have given had the call not been made.
AbortedPollNoEffect ==
    AbortCause =>
        /\ ~op.ret
        /\ events = <<>> /\ log = <<>>
        /\ key_rt = pre.key_rt
        /\ \A dt \in KeysDeltas, levels \in [0 .. ctl.key_num - 1 -> {0, 1}] :
              keyboard_poll(ctl, payload, key_rt, dt, levels, 0) =
              keyboard_poll(ctl, payload, pre.key_rt, dt, levels, 0)

\* scan_snapshot has just failed while a key was held and another had a click
\* pending.
AbortedPollNoEffectWitness ==
    /\ AbortCause /\ op.arg # 0 /\ ctl.scan_snapshot /\ op.snap # 0
    /\ \E i, j \in 0 .. ctl.key_num - 1 :
          /\ key_rt[i].stable = 1 /\ key_rt[i].press_ms > 0
          /\ key_rt[j].stable = 0 /\ key_rt[j].click_count = 1

\* ------------------------------------------------------------------ C13
\* The place of an event among the events one key produces in one tick.
Rank(evt) ==
    CASE evt \in {KB_EVT_PRESS, KB_EVT_RELEASE} -> 0
      [] evt \in {KB_EVT_LONGPRESS, KB_EVT_LONGPRESS_RELEASE,
                  KB_EVT_DOUBLE_CLICK, KB_EVT_CLICK} -> 1
      [] OTHER -> 2

\* The index in the registry chain of the key with id.
IndexOf(id) ==
    LET chain == Registry(ctl, payload)
    IN  CHOOSE i \in 1 .. Len(chain) : payload[chain[i]].key_id = id

\* C13: within one keyboard_poll call no callback is made before every
\* registered key's record has had its update, and the callbacks come in
\* registration order of the keys and, for one key, in the order PRESS,
\* LONGPRESS, REPEAT or RELEASE and then LONGPRESS_RELEASE, DOUBLE_CLICK or CLICK.
DeliverAfterAllUpdates ==
    (op.name = "poll" /\ op.ret) =>
        /\ Cardinality({i \in 1 .. Len(log) : log[i].what = "update"}) = ctl.key_num
        /\ \A i, j \in 1 .. Len(log) :
              (i < j /\ log[i].what = "callback") =>
                  /\ log[j].what = "callback"
                  /\ IndexOf(log[i].key_id) <= IndexOf(log[j].key_id)
                  /\ log[i].key_id = log[j].key_id => Rank(log[i].evt) < Rank(log[j].evt)
        /\ events = [i \in 1 .. Len(events) |->
                        [key_id |-> log[ctl.key_num + i].key_id,
                         evt |-> log[ctl.key_num + i].evt]]
        /\ Len(log) = ctl.key_num + Len(events)

\* One tick in which the first key gave PRESS, LONGPRESS and REPEAT and the
\* second RELEASE and another event.
DeliverAfterAllUpdatesWitness ==
    /\ op.name = "poll" /\ op.ret
    /\ Len(events) = 5
    /\ EventsOf(events, 1) = <<KB_EVT_PRESS, KB_EVT_LONGPRESS, KB_EVT_REPEAT>>
    /\ EventsOf(events, 2)[1] = KB_EVT_RELEASE

\* ------------------------------------------------------------------ C14
\* The largest delta keyboard_poll is called with in SpecPoll.
MaxDelta == CHOOSE d \in Deltas : \A e \in Deltas : e <= d

\* C14 as stated: every key's debounce accumulator is at most KB_DEBOUNCE_MS in
\* every state, whatever the tick deltas.
DebounceSaturates ==
    \A i \in 0 .. ctl.key_num - 1 : key_rt[i].debounce_ms <= KB_DEBOUNCE_MS

\* C14 as amended: nothing is added to a key's debounce accumulator once it has
\* reached KB_DEBOUNCE_MS, so it stays below KB_DEBOUNCE_MS plus the largest
\* tick delta; the addition that takes it to the threshold is not clamped.
DebounceStops ==
    \A i \in 0 .. ctl.key_num - 1 : key_rt[i].debounce_ms < KB_DEBOUNCE_MS + MaxDelta

\* The accumulator has gone past the threshold and the key has been held since.
DebounceStopsWitness ==
    /\ key_rt[0].debounce_ms > KB_DEBOUNCE_MS
    /\ key_rt[0].stable = 1 /\ key_rt[0].press_ms >= KB_LONGPRESS_MS

\* ------------------------------------------------------------------ C15
\* C15: a REPEAT is delivered for a press only once that press's LONGPRESS has
\* been delivered, that is with the long-press-sent flag set.
RepeatOnlyAfterLongPress ==
    (\E i \in 1 .. Len(KeyEvents) : KeyEvents[i] = KB_EVT_REPEAT) =>
        (h.longCnt >= 1 /\ key_rt[0].long_sent = 1)

\* ------------------------------------------------------------------ C16
\* C16: a tick delivers LONGPRESS_RELEASE right after RELEASE exactly when the
\* press that ended delivered LONGPRESS, and nowhere else; from such a RELEASE
\* until the RELEASE of a press that delivered no LONGPRESS no click is pending
\* and neither CLICK nor DOUBLE_CLICK is delivered.
LongPressReleasePaired ==
    LET n == Len(KeyEvents)
    IN  /\ \A i \in 1 .. n :
              KeyEvents[i] = KB_EVT_RELEASE =>
                  ((i < n /\ KeyEvents[i + 1] = KB_EVT_LONGPRESS_RELEASE) <=> ~h.prevShort)
        /\ \A i \in 1 .. n :
              KeyEvents[i] = KB_EVT_LONGPRESS_RELEASE =>
                  (i > 1 /\ KeyEvents[i - 1] = KB_EVT_RELEASE)
        /\ h.afterLong =>
              /\ key_rt[0].click_count = 0
              /\ \A i \in 1 .. n : KeyEvents[i] \notin {KB_EVT_CLICK, KB_EVT_DOUBLE_CLICK}

\* A tap, then within the window a press held past LONGPRESS, released, and the
\* key left alone for the window.
LongPressReleasePairedWitness ==
    /\ h.afterLong /\ h.owed = 1
    /\ h.relMs >= KB_DOUBLE_CLICK_MS
    /\ key_rt[0].stable = 0

\* ------------------------------------------------------------------ C19
\* Between ticks every click counter is 0 or 1 and a pending click's wait timer
\* is below KB_DOUBLE_CLICK_MS.
ClickCounterRange ==
    \A i \in 0 .. ctl.key_num - 1 :
        /\ key_rt[i].click_count \in {0, 1}
        /\ key_rt[i].click_count = 1 => key_rt[i].click_wait_ms < KB_DOUBLE_CLICK_MS

\* The tick of the last RELEASE delivered DOUBLE_CLICK and left no click pending.
DoubleClickOut == h.dbls = 1 /\ key_rt[0].click_count = 0

\* C19 as stated: ClickCounterRange, and every RELEASE that finds a click
\* pending delivers DOUBLE_CLICK instead of starting a new pending click.
ClickPendingAlwaysDoubles ==
    /\ ClickCounterRange
    /\ h.pendAtRel => DoubleClickOut

\* C19 as amended: the same for every RELEASE of a press that delivered no
\* LONGPRESS.
ClickPendingDoubles ==
    /\ ClickCounterRange
    /\ (h.pendAtRel /\ h.prevShort) => DoubleClickOut

\* The RELEASE of a press that delivered no LONGPRESS has just found a click
\* pending and delivered DOUBLE_CLICK.
ClickPendingDoublesWitness ==
    /\ h.pendAtRel /\ h.prevShort /\ DoubleClickOut
    /\ key_rt[0].stable = 0 /\ h.relMs >= 0

\* ------------------------------------------------------------------ C20
\* C20 as stated: once the key has been left released for KB_DOUBLE_CLICK_MS,
\* every press released without LONGPRESS has been answered by a CLICK or, two
\* of them together, by a DOUBLE_CLICK.
EveryTapAnswered == h.relMs >= KB_DOUBLE_CLICK_MS => h.owed = 0

\* C20 as amended: the same for the presses released since the last RELEASE of
\* a press that delivered LONGPRESS.
EveryTapSinceLongAnswered == h.relMs >= KB_DOUBLE_CLICK_MS => h.owedX = 0

\* Three taps in a row: DOUBLE_CLICK for the first two, and the CLICK of the
\* third is out.
EveryTapSinceLongAnsweredWitness ==
    /\ h.relMs >= KB_DOUBLE_CLICK_MS /\ h.owedX = 0
    /\ h.pair /\ ~h.pairTap /\ h.wC = 1

\* ------------------------------------------------------------------ C17
\* C17: right after mpool_init with any count, 0 included, the free list is
\* the count blocks of the buffer in ascending address order, one stride apart,
\* and used is 0; the first mpool_alloc on a pool of count 0 returns NULL.
InitFreeListHoldsCount ==
    /\ op.name = "init" =>
          /\ FreeList(pool, hdr) =
                [i \in 1 .. pool.total |-> BufAddr + (i - 1) * Stride(pool.blk_size)]
          /\ pool.used = 0
    /\ (pool.total = 0 /\ noFree /\ Len(log) >= 1) => log[1] = NULL

\* ------------------------------------------------------------------ C18
\* The node of the key at index i of the runtime table.
NodeAt(i) == Registry(ctl, payload)[i + 1]

\* The events the pass of the last tick for the key at index i produces when it
\* starts with an empty pending_evt.
Attempted(i) ==
    KeyStep([rt |-> pre.key_rt[i], pending |-> <<>>], NodeAt(i),
            key_rt[i].raw_last, op.arg).pending

\* The events all passes of the last tick produce, as callbacks.
AllAttempted ==
    LET F[i \in 0 .. ctl.key_num] ==
            IF i = 0 THEN <<>>
            ELSE F[i - 1] \o [j \in 1 .. Len(Attempted(i - 1)) |->
                                [key_id |-> payload[NodeAt(i - 1)].key_id,
                                 evt |-> Attempted(i - 1)[j].evt]]
    IN  F[ctl.key_num]

\* C18: in one tick a key produces at most three events, so a keyboard_poll
\* call accumulates at most 3 * key_num events, fewer than the KB_MAX_KEYS * 4
\* slots of pending_evt, and every event produced is delivered.
NoEventDropped ==
    (op.name = "poll" /\ op.ret) =>
        /\ \A i \in 0 .. ctl.key_num - 1 : Len(Attempted(i)) <= 3
        /\ Len(events) <= 3 * ctl.key_num
        /\ 3 * KB_MAX_KEYS < KB_MAX_KEYS * 4
        /\ Len(events) < KB_MAX_KEYS * 4
        /\ events = AllAttempted

\* Every key has produced three events in one tick.
NoEventDroppedWitness ==
    /\ op.name = "poll" /\ op.ret
    /\ Len(events) = 3 * ctl.key_num
    /\ \A i \in 0 .. ctl.key_num - 1 : Len(Attempted(i)) = 3

\* ------------------------------------------------------------------ C21
\* C21: over any sequence of ticks from initialisation the PRESS and RELEASE
\* events of a key alternate, PRESS first; LONGPRESS and REPEAT are delivered
\* only after a PRESS and before its RELEASE, and CLICK only while the key is
\* stable released, which is exactly when no PRESS is open.
EventsWellNested ==
    /\ h.orderly
    /\ h.down <=> key_rt[0].stable = 1

\* A second press is being held past LONGPRESS and its first REPEAT after an
\* earlier long press was released.
EventsWellNestedWitness ==
    /\ h.orderly /\ h.down /\ h.afterLong
    /\ h.longCnt = 1 /\ h.repCnt >= 1

====
